---- MODULE Spec2Model ----
(***************************************************************************)
(* The OneFormer and TAPAS inference notebooks and the Jukebox model tests *)
(* as state machines.  A run executes one program (a notebook in a fresh   *)
(* kernel, or one test method) statement by statement.  Calls into the     *)
(* model library are entered (LibraryCall) and then either return (the     *)
(* action named after the statement) or raise (LibraryRaises).  What a     *)
(* library call returns is drawn from small sets.                          *)
(***************************************************************************)
EXTENDS Integers, Sequences, FiniteSets, TLC

\* ---------------------------------------------------------------- bounds
MaxSegments == 2      \* longest segments_info list a post-processor returns
MaxPixels == 2        \* pixels of a semantic segmentation map
NumLabels == 2        \* label ids 0 .. NumLabels-1 of model.config.id2label
MaxQueries == 3       \* most queries bound to `question` in a used kernel
MaxCoords == 2        \* most cells selected for one query
MaxAggregation == 1   \* aggregation indices 0 (none) .. MaxAggregation
MaxCtx == 2           \* largest n_ctx of a prior

\* ------------------------------------------------------- program constants
NumQuestions == 3     \* len(questions)
NumRows == 44         \* rows of the table
NumCols == 4          \* columns of the table: Title, Author, Year, Category
NumPriors == 3        \* priors / levels of the Jukebox model
SampleTokens == 40    \* sample_length = 40 * raw_to_tokens
ReferenceLen == 40    \* length of every EXPECTED_OUTPUT_* / EXPECTED_PRIMED_*
WaveformLength == 5120 \* waveform = ops.rand((1, 5120, 1))
PadLength == 2048     \* ops.zeros(1, 2048 - zs[k].shape[-1])

None == "none"
NoTask == ""

LabelIds == 0 .. (NumLabels - 1)

\* ------------------------------------------------------------- text helpers
Digits == <<"0", "1", "2", "3", "4", "5", "6", "7", "8", "9">>

RECURSIVE ToStr(_)
\* str(k) of a non-negative int, as the f-string formats it
ToStr(k) == IF k < 10 THEN <<Digits[k + 1]>>
            ELSE ToStr(k \div 10) \o <<Digits[(k % 10) + 1]>>

\* f"{segment_label}-{count}"
FormatLabel(segment_label, count) == segment_label \o <<"-">> \o ToStr(count)

\* candidate id2label tables of a checkpoint: distinct names that themselves
\* contain '-' and digits (c, c-0, c-1, ...), and a table giving every id the
\* same name
LabelName(scheme, id) ==
    CASE scheme = "hyphen" -> IF id = 0 THEN <<"c">> ELSE <<"c", "-">> \o ToStr(id - 1)
      [] OTHER -> <<"c">>

Schemes == {"hyphen", "same"}

Id2Labels == {[id \in LabelIds |-> LabelName(s, id)] : s \in Schemes}

\* ------------------------------------------------------------ library data
\* segments_info lists: segment i has id i and some label id
SegmentsInfos ==
    UNION {{[i \in 1 .. n |-> [id |-> i, label_id |-> f[i]]] : f \in [1 .. n -> LabelIds]}
           : n \in 0 .. MaxSegments}

\* flattened semantic maps: one label id per pixel, at least one pixel
SemanticMaps == UNION {[1 .. n -> LabelIds] : n \in 1 .. MaxPixels}

RECURSIVE SeqMax(_)
\* np.max
SeqMax(s) == IF Len(s) = 1 THEN s[1]
             ELSE LET m == SeqMax(Tail(s)) IN IF s[1] > m THEN s[1] ELSE m

RECURSIVE InsertSorted(_, _)
InsertSorted(x, s) ==
    IF s = <<>> THEN <<x>>
    ELSE IF x = s[1] THEN s
    ELSE IF x < s[1] THEN <<x>> \o s
    ELSE <<s[1]>> \o InsertSorted(x, Tail(s))

\* NpUnique without the removal of duplicates
NpAll(s) == s

RECURSIVE NpUnique(_)
\* np.unique(segmentation).tolist(): the sorted distinct values
NpUnique(s) == IF s = <<>> THEN <<>> ELSE InsertSorted(s[1], NpUnique(Tail(s)))

\* ------------------------------------------------------------------- state
VARIABLES
    prog,            \* the program this run executes
    pc,              \* the statement about to run, or "done"
    defined,         \* names bound in the namespace
    inProgress,      \* library calls entered and not yet returned
    raised,          \* what a library call raised, None if nothing
    exc,             \* the exception shown in the cell output / test report
    started,         \* pipeline steps begun, as <<pipeline, step>>
    finished,        \* pipeline steps completed
    processorLoads,  \* AutoProcessor.from_pretrained calls returned
    modelLoads,      \* AutoModel...from_pretrained calls returned
    id2label,        \* model.config.id2label
    inputs,          \* panoptic_inputs, semantic_inputs, instance_inputs
    outputs,         \* task of the inputs the bound `outputs` came from
    prepLog,         \* arguments of the processor(...) calls made
    fwdLog,          \* forward passes made
    segmentation,    \* panoptic / semantic / instance post-processing results
    instances_counter,
    handles,
    todo,            \* rest of the list a drawing loop iterates over
    postLog,         \* post-processing calls made
    legend,          \* the legends drawn, per task
    question,        \* the queries bound to `question`, if it is bound
    tapas_inputs,    \* the queries the tokenizer encoded into `inputs`
    tapas_outputs,   \* the queries whose logits `outputs` holds
    predicted_answer_coordinates,
    predicted_aggregation_indices,
    answers,
    numbers,
    print_i,         \* i of the printing loop
    printed,         \* the lines printed by the last cell
    zs,              \* the music tokens of the three levels
    rng,             \* state of the random generator
    raw_to_tokens,   \* priors[k].raw_to_tokens of the loaded checkpoint
    n_ctx,           \* priors[k].n_ctx of the loaded checkpoint
    conds_call,      \* arguments of the get_music_tokens_conds call
    music_token_conds,
    metadata,
    conditioning,    \* audio_conditioning, metadata_conditioning, lyric_tokens
    sampleLog,       \* the _sample calls returned so far, in order
    encodeLog,       \* the vqvae.encode calls returned so far, in order
    waveform,        \* number of samples of the waveform, 0 while unbound
    upper_2,         \* the padded top-level tokens
    upper_1          \* the padded middle-level tokens

\* the OneFormer notebook's data
ofVars == <<processorLoads, modelLoads, id2label, inputs, outputs, prepLog,
            fwdLog, postLog, segmentation, legend>>
\* locals of the drawing functions
loopVars == <<instances_counter, handles, todo>>

\* the TAPAS notebook's data
tpVars == <<question, tapas_inputs, tapas_outputs, predicted_answer_coordinates,
            predicted_aggregation_indices, answers, numbers, print_i, printed>>

\* the Jukebox tests' data
\* locals of test_primed_sampling
primedVars == <<encodeLog, waveform, upper_2, upper_1>>

jbVars == <<zs, rng, raw_to_tokens, n_ctx, conds_call, music_token_conds,
            metadata, conditioning, sampleLog, primedVars>>

vars == <<prog, pc, defined, inProgress, raised, exc, started, finished,
          ofVars, loopVars, tpVars, jbVars>>

\* ----------------------------------------------------------------- programs
\* the statements of each program, top to bottom
Order ==
    [oneformer |-> <<"image", "processor", "panoptic_inputs", "batch_decode",
                     "model", "panoptic_forward", "panoptic_post", "panoptic_draw",
                     "semantic_inputs", "semantic_forward", "semantic_post",
                     "semantic_draw", "instance_inputs", "instance_forward",
                     "instance_post", "instance_draw">>,
     tapas |-> <<"tapas_model", "tapas_tokenizer", "tapas_table", "tapas_inputs",
                 "tapas_forward", "tapas_convert", "tapas_parse", "tapas_print">>,
     test_sampling |-> <<"ts_model", "ts_tokenizer", "ts_labels", "ts_seed_0",
                         "ts_zs", "ts_sample_0", "ts_assert_0", "ts_seed_1",
                         "ts_sample_1", "ts_assert_1", "ts_seed_2",
                         "ts_sample_2", "ts_assert_2">>,
     test_conditioning |-> <<"tc_model", "tc_tokenizer", "tc_labels", "tc_seed",
                             "tc_zs", "tc_conds", "tc_metadata",
                             "tc_assert_none", "tc_assert_metadata",
                             "tc_get_cond", "tc_assert_audio", "tc_assert_meta",
                             "tc_assert_lyric">>,
     test_primed_sampling |-> <<"tp_model", "tp_seed", "tp_waveform",
                                "tp_tokenizer", "tp_tokens", "tp_encode_0",
                                "tp_sample_0", "tp_assert_0", "tp_upper_2",
                                "tp_encode_1", "tp_sample_1", "tp_assert_1",
                                "tp_upper_1", "tp_encode_2", "tp_sample_2",
                                "tp_assert_2">>]

Notebooks == {"oneformer", "tapas"}
Tests == {"test_sampling", "test_conditioning", "test_primed_sampling"}
Programs == Notebooks \cup Tests

\* the statement after `site` when the program runs top to bottom
Succ(site) ==
    LET o == Order[prog]
        i == CHOOSE k \in 1 .. Len(o) : o[k] = site
    IN IF i = Len(o) THEN "done" ELSE o[i + 1]

\* the names a statement reads before it does anything else
Reads(site) ==
    CASE site = "panoptic_inputs" -> {"processor", "image"}
      [] site = "batch_decode" -> {"processor", "panoptic_inputs"}
      [] site = "panoptic_forward" -> {"model", "panoptic_inputs"}
      [] site = "panoptic_post" -> {"processor", "outputs", "image"}
      [] site = "panoptic_draw" -> {"panoptic_segmentation", "model"}
      [] site = "semantic_inputs" -> {"processor", "image"}
      [] site = "semantic_forward" -> {"model", "semantic_inputs"}
      [] site = "semantic_post" -> {"processor", "outputs"}
      [] site = "semantic_draw" -> {"semantic_segmentation", "model"}
      [] site = "instance_inputs" -> {"processor", "image"}
      [] site = "instance_forward" -> {"model", "instance_inputs"}
      [] site = "instance_post" -> {"processor", "outputs"}
      [] site = "instance_draw" -> {"instance_segmentation", "model"}
      [] site = "tapas_tokenizer" -> {"model_name"}
      [] site = "tapas_inputs" -> {"tokenizer", "table", "question"}
      [] site = "tapas_forward" -> {"model", "inputs"}
      [] site = "tapas_convert" -> {"tokenizer", "inputs", "outputs"}
      [] site = "tapas_parse" -> {"predicted_answer_coordinates", "table",
                                  "predicted_aggregation_indices"}
      [] site = "tapas_print" -> {"questions", "numbers", "answers"}
      [] site \in {"ts_labels", "tc_labels"} -> {"tokenizer"}
      [] site \in {"ts_sample_0", "ts_sample_1", "ts_sample_2"} ->
            {"model", "zs", "labels"}
      [] site \in {"ts_assert_0", "ts_assert_1", "ts_assert_2"} -> {"zs"}
      [] site = "tp_tokens" -> {"tokenizer"}
      [] site = "tp_encode_0" -> {"model", "waveform"}
      [] site = "tp_encode_1" -> {"model", "waveform", "upper_2"}
      [] site = "tp_encode_2" -> {"model", "waveform", "upper_2", "upper_1"}
      [] site \in {"tp_sample_0", "tp_sample_1", "tp_sample_2"} ->
            {"model", "zs", "tokens"}
      [] site \in {"tp_assert_0", "tp_assert_1", "tp_assert_2", "tp_upper_2",
                   "tp_upper_1"} -> {"zs"}
      [] site = "tc_conds" -> {"model", "zs"}
      [] site = "tc_metadata" -> {"top_prior", "labels", "start"}
      [] site = "tc_assert_none" -> {"music_token_conds"}
      [] site = "tc_assert_metadata" -> {"metadata"}
      [] site = "tc_get_cond" -> {"top_prior", "music_token_conds", "metadata"}
      [] site = "tc_assert_audio" -> {"audio_conditioning"}
      [] site = "tc_assert_meta" -> {"metadata_conditioning"}
      [] site = "tc_assert_lyric" -> {"lyric_tokens"}
      [] OTHER -> {}

\* the statements that call the model library
CallSites ==
    {"image", "processor", "panoptic_inputs", "batch_decode", "model",
     "panoptic_forward", "panoptic_post", "semantic_inputs", "semantic_forward",
     "semantic_post", "instance_inputs", "instance_forward", "instance_post",
     "tapas_model", "tapas_tokenizer", "tapas_inputs", "tapas_forward",
     "tapas_convert", "ts_model", "ts_tokenizer", "ts_labels", "ts_seed_0",
     "ts_sample_0", "ts_seed_1", "ts_sample_1", "ts_seed_2", "ts_sample_2",
     "tp_model", "tp_seed", "tp_waveform", "tp_tokenizer", "tp_tokens",
     "tp_encode_0", "tp_sample_0", "tp_upper_2", "tp_encode_1", "tp_sample_1",
     "tp_upper_1", "tp_encode_2", "tp_sample_2",
     "tc_model", "tc_tokenizer", "tc_labels", "tc_seed", "tc_conds",
     "tc_metadata", "tc_get_cond"}

Steps == <<"prepare", "forward", "post", "show">>

\* the pipeline step a statement carries out, if any
StepsAt(site) ==
    CASE site = "panoptic_inputs" -> {<<"panoptic", "prepare">>}
      [] site = "panoptic_forward" -> {<<"panoptic", "forward">>}
      [] site = "panoptic_post" -> {<<"panoptic", "post">>}
      [] site = "panoptic_draw" -> {<<"panoptic", "show">>}
      [] site = "semantic_inputs" -> {<<"semantic", "prepare">>}
      [] site = "semantic_forward" -> {<<"semantic", "forward">>}
      [] site = "semantic_post" -> {<<"semantic", "post">>}
      [] site = "semantic_draw" -> {<<"semantic", "show">>}
      [] site = "instance_inputs" -> {<<"instance", "prepare">>}
      [] site = "instance_forward" -> {<<"instance", "forward">>}
      [] site = "instance_post" -> {<<"instance", "post">>}
      [] site = "instance_draw" -> {<<"instance", "show">>}
      [] site = "tapas_inputs" -> {<<"tapas", "prepare">>}
      [] site = "tapas_forward" -> {<<"tapas", "forward">>}
      [] site = "tapas_convert" -> {<<"tapas", "post">>}
      [] site = "tapas_print" -> {<<"tapas", "show">>}
      [] OTHER -> {}

Pipelines(p) == IF p = "oneformer" THEN {"panoptic", "semantic", "instance"}
                ELSE IF p = "tapas" THEN {"tapas"} ELSE {}

LibraryErrors == {"OSError", "RuntimeError"}

Levels == 0 .. (NumPriors - 1)

\* --------------------------------------------------------- control transfer
\* control is at `site` and no exception has stopped the run
At(site) == pc = site /\ exc = None

\* Call, but the statement does not wait for the call to end
CallNoWait(site) ==
    /\ At(site)
    /\ site \notin inProgress
    /\ Reads(site) \subseteq defined
    /\ inProgress' = inProgress \cup {site}
    /\ started' = started \cup StepsAt(site)
    /\ pc' = Succ(site)

\* control enters the library at `site` and stays there until the call ends
Call(site) ==
    /\ At(site)
    /\ site \notin inProgress
    /\ Reads(site) \subseteq defined
    /\ inProgress' = inProgress \cup {site}
    /\ started' = started \cup StepsAt(site)
    /\ pc' = pc

\* the call made at `site` returns and the next statement is reached
Return(site) ==
    /\ pc = site
    /\ site \in inProgress
    /\ inProgress' = inProgress \ {site}
    /\ finished' = finished \cup StepsAt(site)
    /\ pc' = Succ(site)
    /\ UNCHANGED <<prog, raised, exc, started>>

\* a statement without a library call runs to its end
Local(site) ==
    /\ At(site)
    /\ Reads(site) \subseteq defined
    /\ UNCHANGED <<prog, inProgress, raised, exc>>

LibraryCall ==
    /\ \E site \in CallSites : Call(site)
    /\ UNCHANGED <<prog, defined, raised, exc, finished, ofVars, loopVars, tpVars, jbVars>>

\* LibraryRaises, but the statement sits in a try block whose handler
\* swallows the exception and lets the run go on
LibraryRaisesCaught ==
    /\ \E site \in inProgress, e \in LibraryErrors :
          /\ pc = site
          /\ raised' = e
          /\ exc' = None
          /\ inProgress' = inProgress \ {site}
          /\ pc' = Succ(site)
    /\ UNCHANGED <<prog, defined, started, finished, ofVars, loopVars, tpVars,
                   jbVars>>

\* no statement is inside a try block: what the library raises ends the
\* cell or test and is what the cell output or the test report shows
LibraryRaises ==
    /\ \E site \in inProgress, e \in LibraryErrors :
          /\ pc = site
          /\ raised' = e
          /\ exc' = e
          /\ inProgress' = inProgress \ {site}
    /\ UNCHANGED <<prog, pc, defined, started, finished, ofVars, loopVars, tpVars, jbVars>>

\* a statement reads a name that is not bound
NameError ==
    /\ \E site \in DOMAIN Order[prog] :
          /\ At(Order[prog][site])
          /\ Order[prog][site] \notin inProgress
          /\ ~(Reads(Order[prog][site]) \subseteq defined)
    /\ exc' = "NameError"
    /\ UNCHANGED <<prog, pc, defined, inProgress, raised, started, finished,
                   ofVars, loopVars, tpVars, jbVars>>

\* ------------------------------------------------------ OneFormer notebook
NoInputs == [images |-> "", task |-> NoTask]

\* image = Image.open(requests.get(url, stream=True).raw)
LoadImage ==
    /\ Return("image")
    /\ defined' = defined \cup {"image"}
    /\ UNCHANGED <<ofVars, loopVars, tpVars, jbVars>>

\* processor = AutoProcessor.from_pretrained(...)
LoadProcessor ==
    /\ Return("processor")
    /\ defined' = defined \cup {"processor"}
    /\ processorLoads' = processorLoads + 1
    /\ UNCHANGED <<modelLoads, id2label, inputs, outputs, prepLog, fwdLog,
                   postLog, segmentation, legend, loopVars, tpVars, jbVars>>

\* <name> = processor(images=image, task_inputs=[task], return_tensors="ms")
Prepare(site, task) ==
    /\ Return(site)
    /\ defined' = defined \cup {site}
    /\ inputs' = [inputs EXCEPT ![site] = [images |-> "image", task |-> task]]
    /\ prepLog' = Append(prepLog, [images |-> "image", task |-> task,
                                   return_tensors |-> "ms",
                                   processor |-> processorLoads])
    /\ UNCHANGED <<processorLoads, modelLoads, id2label, outputs, fwdLog,
                   postLog, segmentation, legend, loopVars, tpVars, jbVars>>

PanopticInputs == Prepare("panoptic_inputs", "panoptic")

\* processor.tokenizer.batch_decode(panoptic_inputs.task_inputs)
BatchDecode ==
    /\ Return("batch_decode")
    /\ UNCHANGED <<defined, ofVars, loopVars, tpVars, jbVars>>

\* model = AutoModelForUniversalSegmentation.from_pretrained(...)
LoadModel ==
    /\ Return("model")
    /\ defined' = defined \cup {"model"}
    /\ modelLoads' = modelLoads + 1
    /\ id2label' \in Id2Labels
    /\ UNCHANGED <<processorLoads, inputs, outputs, prepLog, fwdLog, postLog,
                   segmentation, legend, loopVars, tpVars, jbVars>>

\* Forward, but the cell loads the model again before the forward pass
ForwardReloading(site, name) ==
    /\ Return(site)
    /\ defined' = defined \cup {"outputs"}
    /\ outputs' = inputs[name].task
    /\ modelLoads' = modelLoads + 1
    /\ fwdLog' = Append(fwdLog, [inputs |-> name, task |-> inputs[name].task,
                                 model |-> modelLoads'])
    /\ UNCHANGED <<processorLoads, id2label, inputs, prepLog, postLog,
                   segmentation, legend, loopVars, tpVars, jbVars>>

\* with no_grad(): outputs = model(**<name>)
Forward(site, name) ==
    /\ Return(site)
    /\ defined' = defined \cup {"outputs"}
    /\ outputs' = inputs[name].task
    /\ fwdLog' = Append(fwdLog, [inputs |-> name, task |-> inputs[name].task,
                                 model |-> modelLoads])
    /\ UNCHANGED <<processorLoads, modelLoads, id2label, inputs, prepLog,
                   postLog, segmentation, legend, loopVars, tpVars, jbVars>>

PanopticForward == Forward("panoptic_forward", "panoptic_inputs")

\* <task>_segmentation = processor.post_process_<task>_segmentation(outputs)[0]
PostProcess(site, task, results) ==
    /\ Return(site)
    /\ defined' = defined \cup {task \o "_segmentation"}
    /\ \E r \in results : segmentation' = [segmentation EXCEPT ![task] = r]
    /\ postLog' = Append(postLog, [fn |-> task, outputs |-> outputs,
                                   processor |-> processorLoads])
    /\ UNCHANGED <<processorLoads, modelLoads, id2label, inputs, outputs,
                   prepLog, fwdLog, legend, loopVars, tpVars, jbVars>>

PanopticPost == PostProcess("panoptic_post", "panoptic", SegmentsInfos)

NoCounter == [l \in LabelIds |-> 0]

\* a drawing function is entered: its locals before the legend loop
DrawBegin(site, items) ==
    /\ Local(site)
    /\ pc' = site \o "_loop"
    /\ started' = started \cup StepsAt(site)
    /\ instances_counter' = NoCounter
    /\ handles' = <<>>
    /\ todo' = items
    /\ UNCHANGED <<defined, finished, ofVars, tpVars, jbVars>>

\* ax.legend(handles=handles); the function returns and its locals go
DrawEnd(site, task) ==
    /\ At(site \o "_loop")
    /\ todo = <<>>
    /\ legend' = [legend EXCEPT ![task] = handles]
    /\ pc' = Succ(site)
    /\ finished' = finished \cup StepsAt(site)
    /\ instances_counter' = NoCounter
    /\ handles' = <<>>
    /\ UNCHANGED <<prog, defined, inProgress, raised, exc, started, todo,
                   processorLoads, modelLoads, id2label, inputs, outputs,
                   prepLog, fwdLog, postLog, segmentation, tpVars, jbVars>>

\* draw_panoptic_segmentation without `instances_counter[...] += 1`
draw_panoptic_segmentation_no_count(segment) ==
    LET segment_id == segment.id
        segment_label_id == segment.label_id
        segment_label == id2label[segment_label_id]
        label == FormatLabel(segment_label, instances_counter[segment_label_id])
    IN /\ instances_counter' = instances_counter
       /\ handles' = Append(handles, [color |-> <<segment_id>>, label |-> label])

\* one pass of the legend loop of draw_panoptic_segmentation
draw_panoptic_segmentation(segment) ==
    LET segment_id == segment.id
        segment_label_id == segment.label_id
        segment_label == id2label[segment_label_id]
        label == FormatLabel(segment_label, instances_counter[segment_label_id])
    IN /\ instances_counter' =
              [instances_counter EXCEPT ![segment_label_id] = @ + 1]
       /\ handles' = Append(handles, [color |-> <<segment_id>>, label |-> label])

PanopticDrawBegin == DrawBegin("panoptic_draw", segmentation["panoptic"])

PanopticDrawSegment ==
    /\ At("panoptic_draw_loop")
    /\ todo # <<>>
    /\ draw_panoptic_segmentation(Head(todo))
    /\ todo' = Tail(todo)
    /\ UNCHANGED <<prog, pc, defined, inProgress, raised, exc, started,
                   finished, ofVars, tpVars, jbVars>>

PanopticDrawEnd == DrawEnd("panoptic_draw", "panoptic")

SemanticInputs == Prepare("semantic_inputs", "semantic")

\* SemanticForward run on the panoptic inputs
SemanticForwardPanopticInputs == Forward("semantic_forward", "panoptic_inputs")

SemanticForward == Forward("semantic_forward", "semantic_inputs")

SemanticPost == PostProcess("semantic_post", "semantic", SemanticMaps)

\* labels_ids = np.unique(segmentation).tolist()
SemanticDrawBegin ==
    DrawBegin("semantic_draw", NpUnique(segmentation["semantic"]))

\* one pass of the legend loop of draw_semantic_segmentation
draw_semantic_segmentation(label_id) ==
    LET max_label == SeqMax(segmentation["semantic"])
        label == id2label[label_id]
    IN /\ handles' = Append(handles, [color |-> <<label_id, max_label>>,
                                      label |-> label])
       /\ UNCHANGED instances_counter

SemanticDrawLabel ==
    /\ At("semantic_draw_loop")
    /\ todo # <<>>
    /\ draw_semantic_segmentation(Head(todo))
    /\ todo' = Tail(todo)
    /\ UNCHANGED <<prog, pc, defined, inProgress, raised, exc, started,
                   finished, ofVars, tpVars, jbVars>>

SemanticDrawEnd == DrawEnd("semantic_draw", "semantic")

InstanceInputs == Prepare("instance_inputs", "instance")

InstanceForward == Forward("instance_forward", "instance_inputs")

InstancePost == PostProcess("instance_post", "instance", SegmentsInfos)

\* draw_instance_segmentation counting every segment under label id 0
draw_instance_segmentation_one_counter(segment) ==
    LET segment_id == segment.id
        segment_label_id == segment.label_id
        segment_label == id2label[segment_label_id]
        label == FormatLabel(segment_label, instances_counter[segment_label_id])
    IN /\ instances_counter' = [instances_counter EXCEPT ![0] = @ + 1]
       /\ handles' = Append(handles, [color |-> <<segment_id>>, label |-> label])

\* one pass of the legend loop of draw_instance_segmentation
draw_instance_segmentation(segment) ==
    LET segment_id == segment.id
        segment_label_id == segment.label_id
        segment_label == id2label[segment_label_id]
        label == FormatLabel(segment_label, instances_counter[segment_label_id])
    IN /\ instances_counter' =
              [instances_counter EXCEPT ![segment_label_id] = @ + 1]
       /\ handles' = Append(handles, [color |-> <<segment_id>>, label |-> label])

InstanceDrawBegin == DrawBegin("instance_draw", segmentation["instance"])

InstanceDrawSegment ==
    /\ At("instance_draw_loop")
    /\ todo # <<>>
    /\ draw_instance_segmentation(Head(todo))
    /\ todo' = Tail(todo)
    /\ UNCHANGED <<prog, pc, defined, inProgress, raised, exc, started,
                   finished, ofVars, tpVars, jbVars>>

InstanceDrawEnd == DrawEnd("instance_draw", "instance")

\* ---------------------------------------------------------- TAPAS notebook
\* model_name = ...; model = TapasForQuestionAnswering.from_pretrained(model_name)
TapasLoadModel ==
    /\ Return("tapas_model")
    /\ defined' = defined \cup {"model_name", "model"}
    /\ modelLoads' = modelLoads + 1
    /\ UNCHANGED <<processorLoads, id2label, inputs, outputs, prepLog, fwdLog,
                   postLog, segmentation, legend, loopVars, tpVars, jbVars>>

\* tokenizer = TapasTokenizer.from_pretrained(model_name, ...)
TapasLoadTokenizer ==
    /\ Return("tapas_tokenizer")
    /\ defined' = defined \cup {"tokenizer"}
    /\ UNCHANGED <<ofVars, loopVars, tpVars, jbVars>>

\* data = {...}; table = pd.DataFrame.from_dict(data); questions = [...]
TapasTable ==
    /\ Local("tapas_table")
    /\ defined' = defined \cup {"data", "table", "questions"}
    /\ pc' = Succ("tapas_table")
    /\ UNCHANGED <<started, finished, ofVars, loopVars, tpVars, jbVars>>

\* the n-th cell (n = 0, 1, ...) of the table, going down column after
\* column, as a (row, column) coordinate
Cell(n) == <<n % NumRows, (n \div NumRows) % NumCols>>

\* coordinate lists convert_logits_to_predictions can give for query q: up to
\* MaxCoords cells, here the run of cells that begins q columns and q rows in
CoordLists(q) ==
    {[k \in 1 .. n |-> Cell(q * (NumRows + 1) + (k - 1) * (NumRows - 1))]
       : n \in 0 .. MaxCoords}

AggregationIndices == 0 .. MaxAggregation

\* table.iat[coordinate]: the content of a cell, cells numbered row by row
TableIat(coordinate) == coordinate[1] * NumCols + coordinate[2] + 1

\* questions = [...]: the three questions, by number
questions == [q \in 1 .. NumQuestions |-> q]

\* inputs = tokenizer(table=table, queries=question, ...)
TapasInputs ==
    /\ Return("tapas_inputs")
    /\ defined' = defined \cup {"inputs", "input_ids", "attention_mask",
                                 "token_type_ids"}
    /\ tapas_inputs' = question
    /\ UNCHANGED <<ofVars, loopVars, question, tapas_outputs,
                   predicted_answer_coordinates, predicted_aggregation_indices,
                   answers, numbers, print_i, printed, jbVars>>

\* outputs = model(input_ids=..., attention_mask=..., token_type_ids=...)
TapasForward ==
    /\ Return("tapas_forward")
    /\ defined' = defined \cup {"outputs"}
    /\ tapas_outputs' = tapas_inputs
    /\ UNCHANGED <<ofVars, loopVars, question, tapas_inputs,
                   predicted_answer_coordinates, predicted_aggregation_indices,
                   answers, numbers, print_i, printed, jbVars>>

\* predicted_answer_coordinates, predicted_aggregation_indices =
\*     tokenizer.convert_logits_to_predictions(inputs, outputs.logits, ...)
TapasConvert ==
    /\ Return("tapas_convert")
    /\ defined' = defined \cup {"predicted_answer_coordinates",
                                 "predicted_aggregation_indices"}
    /\ predicted_answer_coordinates' \in
           {f \in [DOMAIN tapas_outputs -> UNION {CoordLists(q) : q \in DOMAIN tapas_outputs}]
               : \A q \in DOMAIN f : f[q] \in CoordLists(q)}
    /\ predicted_aggregation_indices' \in
           [DOMAIN tapas_outputs -> AggregationIndices]
    /\ UNCHANGED <<ofVars, loopVars, question, tapas_inputs, tapas_outputs,
                   answers, numbers, print_i, printed, jbVars>>

\* answers = []; numbers = []
TapasParseBegin ==
    /\ Local("tapas_parse")
    /\ pc' = "tapas_parse_loop"
    /\ defined' = defined \cup {"answers", "numbers"}
    /\ answers' = <<>>
    /\ numbers' = <<>>
    /\ todo' = predicted_answer_coordinates
    /\ UNCHANGED <<started, finished, ofVars, instances_counter, handles,
                   question, tapas_inputs, tapas_outputs,
                   predicted_answer_coordinates, predicted_aggregation_indices,
                   print_i, printed, jbVars>>

CellAnswer(value) == [kind |-> "cell", values |-> <<value>>]
ListAnswer(cell_values) == [kind |-> "list", values |-> cell_values]

\* ParseCoordinates without the single-cell branch
ParseCoordinatesAlwaysList(coordinates) ==
    ListAnswer([k \in DOMAIN coordinates |-> TableIat(coordinates[k])])

\* the body of `for coordinates in predicted_answer_coordinates`
ParseCoordinates(coordinates) ==
    IF Len(coordinates) = 1
    THEN CellAnswer(TableIat(coordinates[1]))
    ELSE ListAnswer([k \in DOMAIN coordinates |-> TableIat(coordinates[k])])

TapasParseCoordinates ==
    /\ At("tapas_parse_loop")
    /\ todo # <<>>
    /\ answers' = Append(answers, ParseCoordinates(Head(todo)))
    /\ todo' = Tail(todo)
    /\ UNCHANGED <<prog, pc, defined, inProgress, raised, exc, started,
                   finished, ofVars, instances_counter, handles, question,
                   tapas_inputs, tapas_outputs, predicted_answer_coordinates,
                   predicted_aggregation_indices, numbers, print_i, printed, jbVars>>

\* the first loop is over; `for num in predicted_aggregation_indices` starts
TapasParseNumbersBegin ==
    /\ At("tapas_parse_loop")
    /\ todo = <<>>
    /\ pc' = "tapas_numbers_loop"
    /\ todo' = predicted_aggregation_indices
    /\ UNCHANGED <<prog, defined, inProgress, raised, exc, started, finished,
                   ofVars, instances_counter, handles, tpVars, jbVars>>

\* numbers.append(num)
TapasAppendNumber ==
    /\ At("tapas_numbers_loop")
    /\ todo # <<>>
    /\ numbers' = Append(numbers, Head(todo))
    /\ todo' = Tail(todo)
    /\ UNCHANGED <<prog, pc, defined, inProgress, raised, exc, started,
                   finished, ofVars, instances_counter, handles, question,
                   tapas_inputs, tapas_outputs, predicted_answer_coordinates,
                   predicted_aggregation_indices, answers, print_i, printed, jbVars>>

TapasParseEnd ==
    /\ At("tapas_numbers_loop")
    /\ todo = <<>>
    /\ pc' = Succ("tapas_parse")
    /\ UNCHANGED <<prog, defined, inProgress, raised, exc, started, finished,
                   ofVars, loopVars, tpVars, jbVars>>

\* for i in range(len(questions)):
TapasPrintBegin ==
    /\ Local("tapas_print")
    /\ pc' = "tapas_print_loop"
    /\ started' = started \cup StepsAt("tapas_print")
    /\ print_i' = 0
    /\ printed' = <<>>
    /\ UNCHANGED <<defined, finished, ofVars, loopVars, question, tapas_inputs,
                   tapas_outputs, predicted_answer_coordinates,
                   predicted_aggregation_indices, answers, numbers, jbVars>>

Text(t) == [kind |-> t, values |-> <<>>]
Number(n) == [kind |-> "number", values |-> <<n>>]

QuestionLine(q) == <<Text("Question:"), Number(questions[q + 1])>>

\* AnswerLine printing the aggregation index whatever it is
AnswerLineAlwaysNumber(q) ==
    <<Text("Answer:"), Number(numbers[q + 1]), answers[q + 1]>>

\* what one pass of the printing loop prints after the question
AnswerLine(q) ==
    IF numbers[q + 1] # 0
    THEN <<Text("Answer:"), Number(numbers[q + 1]), answers[q + 1]>>
    ELSE <<Text("Answer:"), answers[q + 1]>>

TapasPrint ==
    /\ At("tapas_print_loop")
    /\ print_i < Len(questions)
    /\ print_i < Len(numbers)
    /\ printed' = printed \o <<QuestionLine(print_i), AnswerLine(print_i)>>
    /\ print_i' = print_i + 1
    /\ UNCHANGED <<prog, pc, defined, inProgress, raised, exc, started,
                   finished, ofVars, loopVars, question, tapas_inputs,
                   tapas_outputs, predicted_answer_coordinates,
                   predicted_aggregation_indices, answers, numbers, jbVars>>

\* numbers[i] with i beyond the end of numbers, after the question is printed
TapasPrintIndexError ==
    /\ At("tapas_print_loop")
    /\ print_i < Len(questions)
    /\ print_i >= Len(numbers)
    /\ printed' = Append(printed, QuestionLine(print_i))
    /\ exc' = "IndexError"
    /\ UNCHANGED <<prog, pc, defined, inProgress, raised, started, finished,
                   ofVars, loopVars, question, tapas_inputs, tapas_outputs,
                   predicted_answer_coordinates, predicted_aggregation_indices,
                   answers, numbers, print_i, jbVars>>

TapasPrintEnd ==
    /\ At("tapas_print_loop")
    /\ print_i >= Len(questions)
    /\ pc' = Succ("tapas_print")
    /\ finished' = finished \cup StepsAt("tapas_print")
    /\ UNCHANGED <<prog, defined, inProgress, raised, exc, started, ofVars,
                   loopVars, tpVars, jbVars>>

\* ------------------------------------------------------------ Jukebox tests
\* A token tensor is a sequence of runs, each run len tokens of one origin;
\* a level of the token list may also be None.
Tokens(n, origin) == [isNone |-> FALSE, runs |-> <<[len |-> n, tokens |-> origin]>>]
NoTokens == [isNone |-> FALSE, runs |-> <<>>]
NoneTokens == [isNone |-> TRUE, runs |-> <<>>]

RECURSIVE RunsLength(_)
RunsLength(runs) ==
    IF runs = <<>> THEN 0 ELSE Head(runs).len + RunsLength(Tail(runs))

\* music_tokens.shape[-1]
Length(music_tokens) == RunsLength(music_tokens.runs)

\* the first n tokens of a run list, [:n]
RECURSIVE TakeRuns(_, _)
TakeRuns(runs, n) ==
    IF n <= 0 \/ runs = <<>> THEN <<>>
    ELSE IF Head(runs).len >= n THEN <<[Head(runs) EXCEPT !.len = n]>>
    ELSE <<Head(runs)>> \o TakeRuns(Tail(runs), n - Head(runs).len)

\* ops.zeros(1, n)
Zeros(n) ==
    [isNone |-> FALSE,
     runs |-> IF n = 0 THEN <<>> ELSE <<[len |-> n, tokens |-> "zeros"]>>]

\* ops.cat((a, b), dim=-1)
Cat(a, b) == [isNone |-> FALSE, runs |-> a.runs \o b.runs]

\* Pad appending 2048 zeros whatever the length of the sequence
PadWhole(music_tokens) == Cat(music_tokens, Zeros(PadLength))

\* ops.cat((music_tokens, ops.zeros(1, 2048 - music_tokens.shape[-1])),
\*         dim=-1).long()
Pad(music_tokens) ==
    Cat(music_tokens, Zeros(PadLength - Length(music_tokens)))
NoConds == [isNone |-> FALSE, conds |-> <<>>]

\* the two reference sequences the test accepts for level k
Expected(k) ==
    CASE k = 0 -> {"EXPECTED_OUTPUT_2", "EXPECTED_OUTPUT_2_PT_2"}
      [] k = 1 -> {"EXPECTED_OUTPUT_1", "EXPECTED_OUTPUT_1_PT_2"}
      [] OTHER -> {"EXPECTED_OUTPUT_0", "EXPECTED_OUTPUT_0_PT_2"}

\* the reference the primed test compares the first tokens of level k with
PrimedExpected(k) ==
    CASE k = 0 -> "EXPECTED_PRIMED_0"
      [] k = 1 -> "EXPECTED_PRIMED_1"
      [] OTHER -> "EXPECTED_PRIMED_2"

\* Sample returning one token per raw sample
SampleRaw(music_tokens, level, sample_length) ==
    {[music_tokens EXCEPT
         ![level + 1] = Cat(@, Tokens(sample_length, t))]
       : t \in Expected(level) \cup {"other"}}

\* JukeboxModel._sample for one level: sample_length / raw_to_tokens new
\* tokens follow the tokens the level is primed with, the other levels are
\* passed on
Sample(music_tokens, level, sample_length) ==
    {[music_tokens EXCEPT
         ![level + 1] = Cat(@, Tokens(sample_length \div raw_to_tokens[level], t))]
       : t \in Expected(level) \cup {"other"}}

\* model.vqvae.encode(x, start_level=.., bs_chunks=..)[0]: one token per
\* raw_to_tokens samples of the prior that works at that VQ-VAE level
encode(x, start_level) ==
    {Tokens(x \div raw_to_tokens[NumPriors - 1 - start_level], t)
       : t \in {PrimedExpected(NumPriors - 1 - start_level), "other"}}

\* get_music_tokens_conds taking the last level for the top one
get_music_tokens_conds_last_top(level, music_tokens, start, end) ==
    IF level # NumPriors - 1
    THEN [isNone |-> FALSE, conds |-> <<music_tokens[level + 1]>>]
    ELSE [isNone |-> TRUE, conds |-> <<>>]

\* JukeboxPrior.get_music_tokens_conds: the upper level's tokens to condition
\* on, None for the top level
get_music_tokens_conds(level, music_tokens, start, end) ==
    IF level # 0
    THEN [isNone |-> FALSE, conds |-> <<music_tokens[level]>>]
    ELSE [isNone |-> TRUE, conds |-> <<>>]

\* top_prior = model.priors[0]
top_prior == 0

\* model = JukeboxModel.from_pretrained(self.model_id, min_duration=0)
\*             .set_train(False)
JukeboxLoadModel ==
    /\ \E site \in {"ts_model", "tc_model", "tp_model"} : Return(site)
    /\ defined' = defined \cup {"model"}
    /\ raw_to_tokens' \in {[k \in Levels |-> 2 ^ (NumPriors - k)],
                            [k \in Levels |-> NumPriors - k]}
    /\ n_ctx' \in {[k \in Levels |-> c] : c \in 1 .. MaxCtx}
    /\ UNCHANGED <<ofVars, loopVars, tpVars, zs, rng, conds_call,
                   music_token_conds, metadata, conditioning, sampleLog,
                   primedVars>>

\* prepare_inputs: tokenizer = JukeboxTokenizer.from_pretrained(self.model_id)
JukeboxLoadTokenizer ==
    /\ \E site \in {"ts_tokenizer", "tc_tokenizer", "tp_tokenizer"} :
          Return(site)
    /\ defined' = defined \cup {"tokenizer"}
    /\ UNCHANGED <<ofVars, loopVars, tpVars, jbVars>>

\* prepare_inputs: tokens = tokenizer(**self.metas)["input_ids"]; return tokens
JukeboxLabels ==
    /\ \E site \in {"ts_labels", "tc_labels"} : Return(site)
    /\ defined' = defined \cup {"labels"}
    /\ UNCHANGED <<ofVars, loopVars, tpVars, jbVars>>

\* set_seed(0)
SetSeed ==
    /\ \E site \in {"ts_seed_0", "ts_seed_1", "ts_seed_2", "tc_seed",
                     "tp_seed"} :
          Return(site)
    /\ rng' = "seed 0"
    /\ UNCHANGED <<defined, ofVars, loopVars, tpVars, zs, raw_to_tokens, n_ctx,
                   conds_call, music_token_conds, metadata, conditioning,
                   sampleLog, primedVars>>

\* zs = [ops.zeros(1, 0, dtype=mindspore.int64) for _ in range(3)]
MakeZs ==
    /\ \E site \in {"ts_zs", "tc_zs"} : Local(site) /\ pc' = Succ(site)
    /\ defined' = defined \cup {"zs"}
    /\ zs' = [k \in 1 .. 3 |-> NoTokens]
    /\ UNCHANGED <<started, finished, ofVars, loopVars, tpVars, rng,
                   raw_to_tokens, n_ctx, conds_call, music_token_conds,
                   metadata, conditioning, sampleLog, primedVars>>

\* TestSamplingSample giving every call a fresh list of empty levels
TestSamplingSampleFresh ==
    /\ \E k \in Levels :
          LET sample_length == SampleTokens * raw_to_tokens[k]
              fresh == [j \in 1 .. 3 |-> NoTokens]
          IN /\ Return(Order["test_sampling"][6 + 3 * k])
             /\ zs' \in Sample(fresh, k, sample_length)
             /\ sampleLog' = Append(sampleLog,
                    [sample_levels |-> <<k>>, given |-> fresh,
                     sample_length |-> sample_length, returned |-> zs'])
    /\ rng' = "used"
    /\ UNCHANGED <<defined, ofVars, loopVars, tpVars, raw_to_tokens, n_ctx,
                   conds_call, music_token_conds, metadata, conditioning,
                   primedVars>>

\* zs = model._sample(zs, labels, [k],
\*         sample_length=40 * model.priors[k].raw_to_tokens, save_results=False)
TestSamplingSample ==
    /\ \E k \in Levels :
          LET sample_length == SampleTokens * raw_to_tokens[k]
          IN /\ Return(Order["test_sampling"][6 + 3 * k])
             /\ zs' \in Sample(zs, k, sample_length)
             /\ sampleLog' = Append(sampleLog,
                    [sample_levels |-> <<k>>, given |-> zs,
                     sample_length |-> sample_length, returned |-> zs'])
    /\ rng' = "used"
    /\ UNCHANGED <<defined, ofVars, loopVars, tpVars, raw_to_tokens, n_ctx,
                   conds_call, music_token_conds, metadata, conditioning,
                   primedVars>>

\* self.assertIn(zs[k][0].detach().tolist(), [EXPECTED_OUTPUT_.., .._PT_2])
TestSamplingAssert ==
    /\ \E k \in Levels :
          LET site == Order["test_sampling"][7 + 3 * k]
          IN /\ Local(site)
             /\ IF zs[k + 1] \in {Tokens(ReferenceLen, e) : e \in Expected(k)}
                THEN pc' = Succ(site) /\ exc' = exc
                ELSE pc' = pc /\ exc' = "AssertionError"
    /\ UNCHANGED <<prog, defined, inProgress, raised, started, finished,
                   ofVars, loopVars, tpVars, jbVars>>

\* start = 0
\* music_token_conds = top_prior.get_music_tokens_conds(
\*     zs, start=start, end=start + top_prior.n_ctx)
TestConditioningConds ==
    /\ Return("tc_conds")
    /\ defined' = defined \cup {"top_prior", "start", "music_token_conds"}
    /\ LET start == 0
           end == start + n_ctx[top_prior]
       IN /\ conds_call' = [level |-> top_prior, music_tokens |-> zs,
                            start |-> start, end |-> end]
          /\ music_token_conds' =
                 get_music_tokens_conds(top_prior, zs, start, end)
    /\ UNCHANGED <<ofVars, loopVars, tpVars, zs, rng, raw_to_tokens, n_ctx,
                   metadata, conditioning, sampleLog, primedVars>>

Golden == {"expected", "other"}

\* metadata = top_prior.get_metadata(labels[0].clone(), start, 1058304, 0)
TestConditioningMetadata ==
    /\ Return("tc_metadata")
    /\ defined' = defined \cup {"metadata"}
    /\ metadata' \in Golden
    /\ UNCHANGED <<ofVars, loopVars, tpVars, zs, rng, raw_to_tokens, n_ctx,
                   conds_call, music_token_conds, conditioning, sampleLog,
                   primedVars>>

\* an assertion passes, or fails with AssertionError
Assertion(site, holds) ==
    /\ Local(site)
    /\ IF holds THEN pc' = Succ(site) /\ exc' = exc
       ELSE pc' = pc /\ exc' = "AssertionError"
    /\ UNCHANGED <<prog, defined, inProgress, raised, started, finished,
                   ofVars, loopVars, tpVars, jbVars>>

\* self.assertIsNone(music_token_conds)
TestConditioningAssertNone == Assertion("tc_assert_none", music_token_conds.isNone)

\* self.assertListEqual(metadata.numpy()[0][:10].tolist(), EXPECTED_Y_COND)
TestConditioningAssertMetadata ==
    Assertion("tc_assert_metadata", metadata = "expected")

\* audio_conditioning, metadata_conditioning, lyric_tokens =
\*     top_prior.get_cond(music_token_conds, metadata)
TestConditioningGetCond ==
    /\ Return("tc_get_cond")
    /\ defined' = defined \cup {"audio_conditioning", "metadata_conditioning",
                                 "lyric_tokens"}
    /\ conditioning' \in [{"audio", "meta", "lyric"} -> Golden]
    /\ UNCHANGED <<ofVars, loopVars, tpVars, zs, rng, raw_to_tokens, n_ctx,
                   conds_call, music_token_conds, metadata, sampleLog,
                   primedVars>>

\* self.assertTrue(allclose(..., EXPECTED_AUDIO_COND / META / LYRIC, ...))
TestConditioningAssertCond ==
    \/ Assertion("tc_assert_audio", conditioning["audio"] = "expected")
    \/ Assertion("tc_assert_meta", conditioning["meta"] = "expected")
    \/ Assertion("tc_assert_lyric", conditioning["lyric"] = "expected")

\* ----------------------------------------------------- test_primed_sampling
\* waveform = ops.rand((1, 5120, 1))
PrimedWaveform ==
    /\ Return("tp_waveform")
    /\ defined' = defined \cup {"waveform"}
    /\ waveform' = WaveformLength
    /\ rng' = "used"
    /\ UNCHANGED <<ofVars, loopVars, tpVars, zs, raw_to_tokens, n_ctx,
                   conds_call, music_token_conds, metadata, conditioning,
                   sampleLog, encodeLog, upper_2, upper_1>>

\* tokens = list(self.prepare_inputs())
PrimedTokens ==
    /\ Return("tp_tokens")
    /\ defined' = defined \cup {"tokens"}
    /\ UNCHANGED <<ofVars, loopVars, tpVars, jbVars>>

\* zs = [model.vqvae.encode(waveform, start_level=2, ..)[0], None, None]
\* zs = [upper_2, model.vqvae.encode(waveform, start_level=1, ..)[0], None]
\* zs = [upper_2, upper_1, model.vqvae.encode(waveform, start_level=0, ..)[0]]
PrimedEncode ==
    /\ \E k \in Levels :
          LET start_level == NumPriors - 1 - k
          IN /\ Return(Order["test_primed_sampling"][6 + 4 * k])
             /\ \E e \in encode(waveform, start_level) :
                   /\ zs' = CASE k = 0 -> <<e, NoneTokens, NoneTokens>>
                               [] k = 1 -> <<upper_2, e, NoneTokens>>
                               [] OTHER -> <<upper_2, upper_1, e>>
                   /\ encodeLog' = Append(encodeLog,
                          [start_level |-> start_level, returned |-> e])
    /\ defined' = defined \cup {"zs"}
    /\ UNCHANGED <<ofVars, loopVars, tpVars, rng, raw_to_tokens, n_ctx,
                   conds_call, music_token_conds, metadata, conditioning,
                   sampleLog, waveform, upper_2, upper_1>>

\* zs = model._sample(zs, tokens, sample_levels=[k], save_results=False,
\*         sample_length=40 * model.priors[k].raw_to_tokens)
PrimedSample ==
    /\ \E k \in Levels :
          LET sample_length == SampleTokens * raw_to_tokens[k]
          IN /\ Return(Order["test_primed_sampling"][7 + 4 * k])
             /\ zs' \in Sample(zs, k, sample_length)
             /\ sampleLog' = Append(sampleLog,
                    [sample_levels |-> <<k>>, given |-> zs,
                     sample_length |-> sample_length, returned |-> zs'])
    /\ rng' = "used"
    /\ UNCHANGED <<defined, ofVars, loopVars, tpVars, raw_to_tokens, n_ctx,
                   conds_call, music_token_conds, metadata, conditioning,
                   primedVars>>

\* assert allclose(zs[k][0][:40], mindspore.tensor(self.EXPECTED_PRIMED_k))
PrimedAssert ==
    \E k \in Levels :
       Assertion(Order["test_primed_sampling"][8 + 4 * k],
                 TakeRuns(zs[k + 1].runs, ReferenceLen)
                    = <<[len |-> ReferenceLen, tokens |-> PrimedExpected(k)]>>)

\* upper_2 = ops.cat((zs[0], ops.zeros(1, 2048 - zs[0].shape[-1])), dim=-1).long()
\* upper_1 = ops.cat((zs[1], ops.zeros(1, 2048 - zs[1].shape[-1])), dim=-1).long()
PrimedPad ==
    /\ \E k \in {0, 1} :
          /\ Return(Order["test_primed_sampling"][9 + 4 * k])
          /\ Length(zs[k + 1]) <= PadLength
          /\ IF k = 0
             THEN /\ upper_2' = Pad(zs[1])
                  /\ upper_1' = upper_1
                  /\ defined' = defined \cup {"upper_2"}
             ELSE /\ upper_1' = Pad(zs[2])
                  /\ upper_2' = upper_2
                  /\ defined' = defined \cup {"upper_1"}
    /\ UNCHANGED <<ofVars, loopVars, tpVars, zs, rng, raw_to_tokens, n_ctx,
                   conds_call, music_token_conds, metadata, conditioning,
                   sampleLog, encodeLog, waveform>>

\* ops.zeros with a negative size: the sampled sequence is longer than 2048
PrimedPadRaises ==
    /\ \E k \in {0, 1} :
          LET site == Order["test_primed_sampling"][9 + 4 * k]
          IN /\ pc = site
             /\ site \in inProgress
             /\ Length(zs[k + 1]) > PadLength
             /\ inProgress' = inProgress \ {site}
    /\ raised' = "ValueError"
    /\ exc' = "ValueError"
    /\ UNCHANGED <<prog, pc, defined, started, finished, ofVars, loopVars,
                   tpVars, jbVars>>

\* ------------------------------------------------------------ specification
Init ==
    /\ prog \in Programs
    /\ pc = Order[prog][1]
    /\ defined = {}
    /\ inProgress = {}
    /\ raised = None
    /\ exc = None
    /\ started = {}
    /\ finished = {}
    /\ processorLoads = 0
    /\ modelLoads = 0
    /\ id2label = [id \in LabelIds |-> <<>>]
    /\ inputs = [n \in {"panoptic_inputs", "semantic_inputs", "instance_inputs"}
                   |-> NoInputs]
    /\ outputs = NoTask
    /\ prepLog = <<>>
    /\ fwdLog = <<>>
    /\ postLog = <<>>
    /\ segmentation = [t \in {"panoptic", "semantic", "instance"} |-> <<>>]
    /\ legend = [t \in {"panoptic", "semantic", "instance"} |-> <<>>]
    /\ instances_counter = NoCounter
    /\ handles = <<>>
    /\ todo = <<>>
    /\ question = <<>>
    /\ tapas_inputs = <<>>
    /\ tapas_outputs = <<>>
    /\ predicted_answer_coordinates = <<>>
    /\ predicted_aggregation_indices = <<>>
    /\ answers = <<>>
    /\ numbers = <<>>
    /\ print_i = 0
    /\ printed = <<>>
    /\ zs = [k \in 1 .. 3 |-> NoTokens]
    /\ rng = "unseeded"
    /\ raw_to_tokens = [k \in Levels |-> 1]
    /\ n_ctx = [k \in Levels |-> 1]
    /\ conds_call = [level |-> 0, music_tokens |-> <<>>, start |-> 0, end |-> 0]
    /\ music_token_conds = NoConds
    /\ metadata = "unbound"
    /\ conditioning = [c \in {"audio", "meta", "lyric"} |-> "unbound"]
    /\ sampleLog = <<>>
    /\ encodeLog = <<>>
    /\ waveform = 0
    /\ upper_2 = NoTokens
    /\ upper_1 = NoTokens

Next ==
    \/ LibraryCall
    \/ LibraryRaises
    \/ NameError
    \/ LoadImage
    \/ LoadProcessor
    \/ PanopticInputs
    \/ BatchDecode
    \/ LoadModel
    \/ PanopticForward
    \/ PanopticPost
    \/ PanopticDrawBegin
    \/ PanopticDrawSegment
    \/ PanopticDrawEnd
    \/ SemanticInputs
    \/ SemanticForward
    \/ SemanticPost
    \/ SemanticDrawBegin
    \/ SemanticDrawLabel
    \/ SemanticDrawEnd
    \/ InstanceInputs
    \/ InstanceForward
    \/ InstancePost
    \/ InstanceDrawBegin
    \/ InstanceDrawSegment
    \/ InstanceDrawEnd
    \/ TapasLoadModel
    \/ TapasLoadTokenizer
    \/ TapasTable
    \/ JukeboxLoadModel
    \/ JukeboxLoadTokenizer
    \/ JukeboxLabels
    \/ SetSeed
    \/ MakeZs
    \/ TestSamplingSample
    \/ TestSamplingAssert
    \/ TestConditioningConds
    \/ TestConditioningMetadata
    \/ TestConditioningAssertNone
    \/ TestConditioningAssertMetadata
    \/ TestConditioningGetCond
    \/ TestConditioningAssertCond
    \/ PrimedWaveform
    \/ PrimedTokens
    \/ PrimedEncode
    \/ PrimedSample
    \/ PrimedAssert
    \/ PrimedPad
    \/ PrimedPadRaises

Spec == Init /\ [][Next]_vars

\* The TAPAS notebook from its inference cell on, in a kernel in which the
\* first cells have run and `question` is bound to a list of queries (the
\* kernel the recorded outputs, execution counts 24 to 26, come from).
InitSession ==
    /\ prog = "tapas"
    /\ pc = "tapas_inputs"
    /\ defined = {"model_name", "model", "tokenizer", "data", "table",
                  "questions", "question"}
    /\ inProgress = {}
    /\ raised = None
    /\ exc = None
    /\ started = {}
    /\ finished = {}
    /\ processorLoads = 0
    /\ modelLoads = 1
    /\ id2label = [id \in LabelIds |-> <<>>]
    /\ inputs = [n \in {"panoptic_inputs", "semantic_inputs", "instance_inputs"}
                   |-> NoInputs]
    /\ outputs = NoTask
    /\ prepLog = <<>>
    /\ fwdLog = <<>>
    /\ postLog = <<>>
    /\ segmentation = [t \in {"panoptic", "semantic", "instance"} |-> <<>>]
    /\ legend = [t \in {"panoptic", "semantic", "instance"} |-> <<>>]
    /\ instances_counter = NoCounter
    /\ handles = <<>>
    /\ todo = <<>>
    /\ question \in {[q \in 1 .. n |-> q] : n \in 0 .. MaxQueries}
    /\ tapas_inputs = <<>>
    /\ tapas_outputs = <<>>
    /\ predicted_answer_coordinates = <<>>
    /\ predicted_aggregation_indices = <<>>
    /\ answers = <<>>
    /\ numbers = <<>>
    /\ print_i = 0
    /\ printed = <<>>
    /\ zs = [k \in 1 .. 3 |-> NoTokens]
    /\ rng = "unseeded"
    /\ raw_to_tokens = [k \in Levels |-> 1]
    /\ n_ctx = [k \in Levels |-> 1]
    /\ conds_call = [level |-> 0, music_tokens |-> <<>>, start |-> 0, end |-> 0]
    /\ music_token_conds = NoConds
    /\ metadata = "unbound"
    /\ conditioning = [c \in {"audio", "meta", "lyric"} |-> "unbound"]
    /\ sampleLog = <<>>
    /\ encodeLog = <<>>
    /\ waveform = 0
    /\ upper_2 = NoTokens
    /\ upper_1 = NoTokens

NextSession ==
    \/ LibraryCall
    \/ LibraryRaises
    \/ TapasInputs
    \/ TapasForward
    \/ TapasConvert
    \/ TapasParseBegin
    \/ TapasParseCoordinates
    \/ TapasParseNumbersBegin
    \/ TapasAppendNumber
    \/ TapasParseEnd
    \/ TapasPrintBegin
    \/ TapasPrint
    \/ TapasPrintIndexError
    \/ TapasPrintEnd

SpecSession == InitSession /\ [][NextSession]_vars

\* ------------------------------------------------------------------ claims
\* a run has come to its end: past the last statement, or stopped by an
\* exception
Stopped == pc = "done" \/ exc # None

\* C1: in every inference pipeline of a notebook run top to bottom the steps
\* happen in the order prepare, forward, post-process, show: a step starts
\* only after the preceding step of its pipeline has finished, and unless a
\* library call raised, the run ends with no step of a pipeline left out.
C1_PipelineOrder ==
    /\ \A p \in Pipelines(prog) : \A k \in 2 .. Len(Steps) :
          <<p, Steps[k]>> \in started => <<p, Steps[k - 1]>> \in finished
    /\ (Stopped /\ raised = None) =>
          \A p \in Pipelines(prog) : \A k \in 1 .. Len(Steps) :
             <<p, Steps[k]>> \in finished

\* C3: in test_conditioning the top-level prior (priors[0]) is asked for its
\* conditioning tokens on three empty levels with start = 0 and
\* end = start + n_ctx, and the answer is None.
C3_TopPriorCondsNone ==
    (prog = "test_conditioning" /\ "music_token_conds" \in defined) =>
        /\ conds_call.level = 0
        /\ \A k \in 1 .. NumPriors : Length(conds_call.music_tokens[k]) = 0
        /\ conds_call.start = 0
        /\ conds_call.end = conds_call.start + n_ctx[0]
        /\ music_token_conds.isNone

C3_Witness ==
    /\ prog = "test_conditioning"
    /\ pc = "tc_metadata"
    /\ "music_token_conds" \in defined
    /\ music_token_conds.isNone
    /\ conds_call.end = n_ctx[0]

\* C4: the three OneFormer tasks use one processor and one model: each is
\* loaded once, before the first forward pass, every processor call, forward
\* pass and post-processing call uses that first load, and the processor
\* calls differ only in the task input.
C4_SameModelAndProcessor ==
    prog = "oneformer" =>
        /\ modelLoads <= 1
        /\ processorLoads <= 1
        /\ \A k \in DOMAIN fwdLog :
              fwdLog[k].model = 1 /\ processorLoads = 1
        /\ \A k \in DOMAIN prepLog : prepLog[k].processor = 1
        /\ \A k \in DOMAIN postLog : postLog[k].processor = 1
        /\ \A j, k \in DOMAIN prepLog :
              /\ prepLog[j].images = prepLog[k].images
              /\ prepLog[j].return_tensors = prepLog[k].return_tensors
              /\ j # k => prepLog[j].task # prepLog[k].task

C4_Witness ==
    /\ prog = "oneformer"
    /\ pc = "done"
    /\ Len(fwdLog) = 3
    /\ Len(prepLog) = 3
    /\ {fwdLog[k].task : k \in DOMAIN fwdLog} = {"panoptic", "semantic", "instance"}

\* the number of entries of info before entry k with the label id of entry k
EarlierSame(info, k) ==
    Cardinality({j \in 1 .. (k - 1) : info[j].label_id = info[k].label_id})

Injective(f) == \A a, b \in DOMAIN f : a # b => f[a] # f[b]

\* handles h are the legend of the first Len(h) entries of info
PanopticLabels(h, info) ==
    /\ Len(h) <= Len(info)
    /\ \A k \in DOMAIN h :
          h[k].label = id2label[info[k].label_id] \o <<"-">>
                          \o ToStr(EarlierSame(info, k))
    /\ Injective(id2label) =>
          \A j, k \in DOMAIN h : j # k => h[j].label # h[k].label

\* C5: draw_panoptic_segmentation labels each segment "<class name>-<k>", k
\* being the number of earlier segments_info entries with the same label_id,
\* so any two labels differ whenever id2label gives distinct ids distinct
\* names.
C5_PanopticLegendLabels ==
    /\ pc = "panoptic_draw_loop" =>
          PanopticLabels(handles, segmentation["panoptic"])
    /\ <<"panoptic", "show">> \in finished =>
          /\ Len(legend["panoptic"]) = Len(segmentation["panoptic"])
          /\ PanopticLabels(legend["panoptic"], segmentation["panoptic"])

C5_Witness ==
    /\ <<"panoptic", "show">> \in finished
    /\ Injective(id2label)
    /\ id2label[1] = <<"c", "-", "0">>
    /\ Len(legend["panoptic"]) = 2
    /\ segmentation["panoptic"][1].label_id = segmentation["panoptic"][2].label_id

\* C6: draw_semantic_segmentation makes exactly one legend entry for every
\* label id that occurs in the segmentation map, whatever the number of
\* pixels carrying it, and none for a label id that does not occur.
C6_SemanticLegendPerLabel ==
    <<"semantic", "show">> \in finished =>
        LET seg == segmentation["semantic"]
            ids == {seg[k] : k \in DOMAIN seg}
            h == legend["semantic"]
        IN /\ \A id \in ids :
                 Cardinality({k \in DOMAIN h : h[k].color[1] = id}) = 1
           /\ \A k \in DOMAIN h :
                 h[k].color[1] \in ids /\ h[k].label = id2label[h[k].color[1]]

C6_Witness ==
    /\ <<"semantic", "show">> \in finished
    /\ Len(segmentation["semantic"]) = 2
    /\ segmentation["semantic"][1] = segmentation["semantic"][2]
    /\ Len(legend["semantic"]) = 1

\* C7: for every question printed, the answer line holds just the content of
\* the selected cells when the predicted aggregation index is 0, and the
\* index followed by the content of the selected cells when it is not 0.
C7_AnswerByTaskType ==
    \A q \in 0 .. (print_i - 1) :
        LET line == printed[2 * q + 2]
            coordinates == predicted_answer_coordinates[q + 1]
            aggregation == predicted_aggregation_indices[q + 1]
            cells == [k \in DOMAIN coordinates |-> TableIat(coordinates[k])]
        IN /\ line[1] = Text("Answer:")
           /\ IF aggregation = 0
              THEN Len(line) = 2 /\ line[2].values = cells
              ELSE /\ Len(line) = 3
                   /\ line[2] = Number(aggregation)
                   /\ line[3].values = cells

C7_Witness ==
    /\ pc = "done"
    /\ print_i = NumQuestions
    /\ predicted_aggregation_indices[1] = 0
    /\ predicted_aggregation_indices[3] # 0
    /\ Len(predicted_answer_coordinates[1]) = 1
    /\ Len(predicted_answer_coordinates[3]) = 2

\* C8: the program is one thread of control making synchronous calls: at
\* most one library call is in progress, and while it is, control stays at
\* the statement that made it.
C8_OneCallAtATime ==
    /\ Cardinality(inProgress) <= 1
    /\ inProgress # {} => inProgress = {pc}

C8_Witness ==
    /\ inProgress = {"semantic_forward"}
    /\ pc = "semantic_forward"

\* C9: nothing catches a failure: when a library call raises, that exception
\* is what the cell output or test report shows, control stays at the
\* failing statement, no name is bound or rebound in place of the result,
\* and after an exception no further statement runs.
C9_FailuresSurface ==
    [][/\ exc = None
       /\ raised' # None =>
             /\ exc' = raised'
             /\ pc' = pc
             /\ UNCHANGED <<defined, ofVars, loopVars, tpVars, jbVars>>]_vars

C9_Witness ==
    /\ raised # None
    /\ exc = raised
    /\ pc = "semantic_forward"
    /\ outputs = "panoptic"

\* C11: test_sampling samples level 0, then level 1, then level 2, one level
\* per _sample call; each call is given the list the preceding call returned
\* (the first one three empty levels), and after the call for level k the
\* entry at index k holds the newly sampled tokens of that level.
C11_LevelByLevel ==
    prog = "test_sampling" =>
        /\ Len(sampleLog) <= NumPriors
        /\ \A i \in DOMAIN sampleLog :
              LET call == sampleLog[i]
                  k == i - 1
              IN /\ call.sample_levels = <<k>>
                 /\ call.given = IF i = 1 THEN [j \in 1 .. 3 |-> NoTokens]
                                 ELSE sampleLog[i - 1].returned
                 /\ call.given[k + 1] = NoTokens
                 /\ Length(call.returned[k + 1]) > 0
        /\ (sampleLog # <<>> /\ inProgress = {}) =>
              zs = sampleLog[Len(sampleLog)].returned

C11_Witness ==
    /\ prog = "test_sampling"
    /\ pc = "done"
    /\ Len(sampleLog) = NumPriors
    /\ \A k \in 1 .. NumPriors : Length(zs[k]) > 0

\* C12: a _sample call for level k that starts from an empty token sequence
\* with sample_length = 40 * priors[k].raw_to_tokens returns exactly 40
\* tokens at level k, for each of the levels 0, 1 and 2.
C12_SampleLength ==
    \A i \in DOMAIN sampleLog :
        LET call == sampleLog[i]
            k == call.sample_levels[1]
        IN (/\ call.given[k + 1] = NoTokens
            /\ call.sample_length = SampleTokens * raw_to_tokens[k]) =>
               Length(call.returned[k + 1]) = SampleTokens

C12_Witness ==
    /\ prog = "test_sampling"
    /\ Len(sampleLog) = NumPriors
    /\ raw_to_tokens[0] = 8
    /\ \A i \in DOMAIN sampleLog :
          /\ sampleLog[i].given[i] = NoTokens
          /\ Length(sampleLog[i].returned[i]) = SampleTokens

\* upper is sampled followed by zeros only, 2048 tokens in all
PaddedFrom(upper, sampled) ==
    /\ Length(sampled) <= PadLength
    /\ Length(upper) = PadLength
    /\ Len(upper.runs) >= Len(sampled.runs)
    /\ SubSeq(upper.runs, 1, Len(sampled.runs)) = sampled.runs
    /\ \A j \in (Len(sampled.runs) + 1) .. Len(upper.runs) :
          upper.runs[j].tokens = "zeros"

\* C13: in test_primed_sampling the call for level k is given, at level k,
\* the VQ-VAE encoding of the waveform made with start_level 2 - k, None at
\* the levels not yet sampled, and at every level already sampled that
\* level's result followed by zeros up to exactly 2048 tokens (the result
\* being at most 2048 tokens long).
C13_PrimedSampling ==
    prog = "test_primed_sampling" =>
        /\ \A i \in DOMAIN sampleLog :
              LET call == sampleLog[i]
                  k == i - 1
              IN /\ call.sample_levels = <<k>>
                 /\ Len(encodeLog) >= i
                 /\ encodeLog[i].start_level = NumPriors - 1 - k
                 /\ call.given[k + 1] = encodeLog[i].returned
                 /\ \A j \in (k + 2) .. NumPriors : call.given[j].isNone
                 /\ \A j \in 1 .. k :
                       /\ ~call.given[j].isNone
                       /\ PaddedFrom(call.given[j], sampleLog[j].returned[j])
        /\ "upper_2" \in defined => PaddedFrom(upper_2, sampleLog[1].returned[1])
        /\ "upper_1" \in defined => PaddedFrom(upper_1, sampleLog[2].returned[2])

C13_Witness ==
    /\ prog = "test_primed_sampling"
    /\ pc = "done"
    /\ Len(sampleLog) = NumPriors
    /\ Length(upper_2) = PadLength
    /\ Len(upper_2.runs) = 3
    /\ sampleLog[3].given[1] = upper_2
    /\ sampleLog[3].given[2] = upper_1

\* the answer the parser is to build for one coordinate list
AnswerFor(answer, coordinates) ==
    IF Len(coordinates) = 1
    THEN /\ answer.kind = "cell"
         /\ answer.values = <<TableIat(coordinates[1])>>
    ELSE /\ answer.kind = "list"
         /\ answer.values = [k \in DOMAIN coordinates |-> TableIat(coordinates[k])]

\* C14: the parser builds one answer per predicted coordinate list, in order:
\* the single cell value for a list of exactly one coordinate, the list of
\* cell values in the same order for any other list, the empty one included;
\* after the first loop there are as many answers as coordinate lists, and
\* after the second as many numbers as predicted aggregation indices.
C14_ParserAnswers ==
    /\ \A q \in DOMAIN answers :
          /\ q \in DOMAIN predicted_answer_coordinates
          /\ AnswerFor(answers[q], predicted_answer_coordinates[q])
    /\ pc \in {"tapas_numbers_loop", "tapas_print", "tapas_print_loop", "done"} =>
          Len(answers) = Len(predicted_answer_coordinates)
    /\ pc \in {"tapas_print", "tapas_print_loop", "done"} =>
          /\ Len(numbers) = Len(predicted_aggregation_indices)
          /\ numbers = predicted_aggregation_indices

C14_Witness ==
    /\ pc = "tapas_print"
    /\ Len(answers) = 3
    /\ Len(predicted_answer_coordinates[1]) = 0
    /\ Len(predicted_answer_coordinates[2]) = 1
    /\ Len(predicted_answer_coordinates[3]) = 2
    /\ answers[2].kind = "cell"
    /\ Len(numbers) = 3

\* the task a post-processing function belongs to gets the inputs of that task
TaskInputs(task) == task \o "_inputs"

\* C15: in a top-to-bottom run of the OneFormer notebook every
\* post-processing call receives the outputs of the forward pass made on the
\* inputs of its own task, and `outputs` always holds the result of the most
\* recent forward pass only.
C15_OutputsOfSameTask ==
    prog = "oneformer" =>
        /\ \A i \in DOMAIN postLog :
              /\ i \in DOMAIN fwdLog
              /\ postLog[i].outputs = postLog[i].fn
              /\ fwdLog[i].task = postLog[i].fn
              /\ fwdLog[i].inputs = TaskInputs(postLog[i].fn)
        /\ Len(fwdLog) <= Len(postLog) + 1
        /\ fwdLog # <<>> => outputs = fwdLog[Len(fwdLog)].task

C15_Witness ==
    /\ prog = "oneformer"
    /\ pc = "done"
    /\ Len(postLog) = 3
    /\ postLog[1].outputs = "panoptic"
    /\ postLog[2].outputs = "semantic"
    /\ postLog[3].outputs = "instance"
    /\ outputs = "instance"

RECURSIVE SumCounters(_, _)
SumCounters(counter, ids) ==
    IF ids = {} THEN 0
    ELSE LET id == CHOOSE x \in ids : TRUE
         IN counter[id] + SumCounters(counter, ids \ {id})

InLegendLoop == pc \in {"panoptic_draw_loop", "instance_draw_loop"}

Drawn == IF pc = "panoptic_draw_loop" THEN segmentation["panoptic"]
         ELSE segmentation["instance"]

\* C16: in the legend loops of draw_panoptic_segmentation and
\* draw_instance_segmentation the number of handles equals the number of
\* segments processed so far and the sum of all instance counters, and each
\* iteration adds exactly one handle and adds one to exactly one counter,
\* that of the segment's label_id.
C16_LegendLoopCounters ==
    /\ [](InLegendLoop =>
            /\ Len(handles) = Len(Drawn) - Len(todo)
            /\ Len(handles) = SumCounters(instances_counter, LabelIds))
    /\ [][(InLegendLoop /\ pc' = pc /\ todo' # todo) =>
            LET segment == Head(todo)
            IN /\ Len(handles') = Len(handles) + 1
               /\ SubSeq(handles', 1, Len(handles)) = handles
               /\ instances_counter' =
                     [instances_counter EXCEPT ![segment.label_id] = @ + 1]]_vars

C16_Witness ==
    /\ pc = "instance_draw_loop"
    /\ todo = <<>>
    /\ Len(handles) = 2
    /\ instances_counter[1] = 2
    /\ instances_counter[0] = 0

====
